---- MODULE Spec2Model ----
(***************************************************************************)
(* Model of rtanalysis: the RTAnalysis class (rtanalysis/rtanalysis.py)    *)
(* and the test-data generator (rtanalysis/generate_testdata.py).          *)
(*                                                                         *)
(* Numbers.  A scalar is a record [k, n, d]: k = "num" is the rational     *)
(* n/d in lowest terms (d > 0), k = "nan" is the float NaN, k = "None" is  *)
(* Python's None, and k = "True" / "False" / "other" are the values an     *)
(* accuracy sequence may hold ("other" stands for any non-boolean object). *)
(* Arithmetic is exact rational arithmetic: the rounding of IEEE doubles   *)
(* is not modelled.                                                        *)
(*                                                                         *)
(* A pandas Series is a record [values, dtype]; a plain Python list is the *)
(* same record with dtype = "list".                                        *)
(***************************************************************************)
EXTENDS Integers, Sequences, FiniteSets, TLC

VARIABLES
    rta,      \* the analyzer under study: an RTAnalysis instance
    rtb,      \* a second RTAnalysis instance, constructed anew for each comparison
    call,     \* the fit call made on rta whose arguments are still in scope
    callB,    \* the fit call made on rtb with the same arguments
    test_df   \* the data frame returned by generate_test_df, with its arguments

vars == <<rta, rtb, call, callB, test_df>>

-----------------------------------------------------------------------------
(* Bounds of the model *)

MaxLen == 2        \* longest rt / accuracy sequence passed to fit on a new analyzer
MaxHistLen == 1    \* longest such sequence passed to an analyzer that is used again
MaxRT == 2         \* largest response time in such a sequence (smallest: -1)
MaxCutoff == 2     \* largest outlier_cutoff_sd (cutoffs are 1..MaxCutoff, or None)
MaxN == 3          \* largest n passed to generate_test_df
MaxParam == 2      \* largest mean_rt and sd_rt passed to generate_test_df
MaxRaw == 3        \* largest raw response time drawn by generate_test_df (smallest: 1)

-----------------------------------------------------------------------------
(* Scalars *)

Abs(x) == IF x < 0 THEN -x ELSE x

RECURSIVE GCD(_, _)
GCD(a, b) == IF b = 0 THEN a ELSE GCD(b, a % b)

Frac(n, d) ==
    LET g == GCD(Abs(n), Abs(d))
        s == IF d < 0 THEN -1 ELSE 1
    IN  [k |-> "num", n |-> (s * n) \div g, d |-> (s * d) \div g]

Num(i) == [k |-> "num", n |-> i, d |-> 1]
NaN == [k |-> "nan", n |-> 0, d |-> 1]
None == [k |-> "None", n |-> 0, d |-> 1]
True == [k |-> "True", n |-> 0, d |-> 1]
False == [k |-> "False", n |-> 0, d |-> 1]
Other == [k |-> "other", n |-> 0, d |-> 1]

IsNum(x) == x.k = "num"

\* x > 0 as Python evaluates it on a float: False when x is NaN.
GtZero(x) == IsNum(x) /\ x.n > 0

RECURSIVE SumSeq(_)
SumSeq(s) ==
    IF s = <<>> THEN Num(0)
    ELSE LET h == Head(s)
             t == SumSeq(Tail(s))
         IN  Frac(h.n * t.d + t.n * h.d, h.d * t.d)

RECURSIVE SumSqSeq(_)
SumSqSeq(s) ==
    IF s = <<>> THEN Num(0)
    ELSE LET h == Head(s)
             t == SumSqSeq(Tail(s))
         IN  Frac(h.n * h.n * t.d + t.n * h.d * h.d, h.d * h.d * t.d)

RECURSIVE MinSeq(_)
MinSeq(s) ==
    IF Len(s) = 1 THEN Head(s)
    ELSE LET h == Head(s)
             t == MinSeq(Tail(s))
         IN  IF h.n * t.d <= t.n * h.d THEN h ELSE t

RAdd(a, b) == Frac(a.n * b.d + b.n * a.d, a.d * b.d)
RSub(a, b) == Frac(a.n * b.d - b.n * a.d, a.d * b.d)
RMul(a, b) == Frac(a.n * b.n, a.d * b.d)
RDiv(a, b) == Frac(a.n * b.d, a.d * b.n)
RLess(a, b) == a.n * b.d < b.n * a.d

IsSquare(i) == \E r \in 0..i : r * r = i
ISqrt(i) == CHOOSE r \in 0..i : r * r = i

\* The square root of a rational >= 0 whose root is rational.
HasRSqrt(a) == IsSquare(a.n) /\ IsSquare(a.d)
RSqrt(a) == Frac(ISqrt(a.n), ISqrt(a.d))

-----------------------------------------------------------------------------
(* pandas.Series *)

Series(values, dtype) == [values |-> values, dtype |-> dtype]

\* The non-missing values of a float Series (pandas reductions skip NaN).
NotNa(s) == SelectSeq(s.values, IsNum)

\* Series.mean(): NaN when no value remains.
SeriesMean(s) ==
    LET xs == NotNa(s)
        t == SumSeq(xs)
    IN  IF xs = <<>> THEN NaN ELSE Frac(t.n, t.d * Len(xs))

\* Series.min(): NaN when no value remains.
SeriesMin(s) == IF NotNa(s) = <<>> THEN NaN ELSE MinSeq(NotNa(s))

\* Series.mean() of a boolean Series: the share of True; NaN when empty.
BoolMean(s) ==
    IF s.values = <<>> THEN NaN
    ELSE Frac(Len(SelectSeq(s.values, LAMBDA x : x.k = "True")), Len(s.values))

\* Series.mask(cond): NaN where cond holds, the value elsewhere.
Mask(s, cond) ==
    Series([i \in 1..Len(s.values) |-> IF cond[i] THEN NaN ELSE s.values[i]], s.dtype)

\* ~accuracy
Not(s) == [i \in 1..Len(s.values) |-> s.values[i].k # "True"]

\* The dtype pandas infers for pd.Series(list).
InferDtype(values) ==
    IF values # <<>> /\ \A i \in 1..Len(values) : values[i].k \in {"True", "False"}
        THEN "bool"
    ELSE IF values # <<>> /\ \A i \in 1..Len(values) : values[i].k \in {"num", "nan"}
        THEN "float64"
    ELSE "object"


\* The variance behind Series.std(ddof): NaN when fewer than ddof + 1 values remain.
\* The standard deviation itself is its square root, which the model never needs
\* as a number: it only compares against it (see GtCutoff) or requires its root
\* to be rational (see scale_values).
SeriesVar(s, ddof) ==
    LET xs == NotNa(s)
        cnt == Len(xs)
        t == SumSeq(xs)
        q == SumSqSeq(xs)
    IN  IF cnt - ddof <= 0 THEN NaN
        ELSE Frac(cnt * q.n * t.d * t.d - t.n * t.n * q.d,
                  q.d * t.d * t.d * cnt * (cnt - ddof))

-----------------------------------------------------------------------------
(* class RTAnalysis *)

\* RTAnalysis.__init__
RTAnalysis(outlier_cutoff_sd) ==
    [outlier_cutoff_sd |-> outlier_cutoff_sd, mean_rt_ |-> None, mean_accuracy_ |-> None]

\* RTAnalysis._ensure_series_type
ensure_series_type(var) ==
    IF var.dtype = "list" THEN Series(var.values, InferDtype(var.values)) ELSE var

\* A length check that only rejects an accuracy sequence that is too long.
validate_length_at_most(rt, accuracy) == Len(rt.values) >= Len(accuracy.values)

\* same_length of RTAnalysis._validate_length: FALSE makes it raise ValueError.
validate_length(rt, accuracy) == Len(rt.values) = Len(accuracy.values)

\* The dtype assertion left out.
dtype_unchecked(accuracy) == TRUE

\* assert accuracy.dtype == bool
dtype_is_bool(accuracy) == accuracy.dtype = "bool"

\* The comparison with the cutoff turned round: rt < cutoff.
LtCutoff(x, var, sd) ==
    /\ IsNum(x)
    /\ IsNum(var)
    /\ (x.n <= 0 \/ x.n * x.n * var.d * sd.d * sd.d < sd.n * sd.n * var.n * x.d * x.d)

\* x > rt.std() * outlier_cutoff_sd, for a cutoff sd > 0: with var the variance
\* of rt, x > sqrt(var) * sd  iff  x > 0 and x^2 > var * sd^2.  False when x or
\* the standard deviation is NaN.
GtCutoff(x, var, sd) ==
    /\ IsNum(x)
    /\ IsNum(var)
    /\ x.n > 0
    /\ x.n * x.n * var.d * sd.d * sd.d > sd.n * sd.n * var.n * x.d * x.d

\* Outlier rejection that computes the cutoff and returns rt unmasked.
reject_outlier_rt_unmasked(self, rt) == rt

\* RTAnalysis.reject_outlier_rt
reject_outlier_rt(self, rt) ==
    IF self.outlier_cutoff_sd = None THEN rt
    ELSE LET var == SeriesVar(rt, 1)
         IN  Mask(rt, [i \in 1..Len(rt.values) |->
                          GtCutoff(rt.values[i], var, self.outlier_cutoff_sd)])

\* self.mean_accuracy_ = accuracy.mean()
store_mean_accuracy(self, accuracy) ==
    [self EXCEPT !.mean_accuracy_ = BoolMean(accuracy)]

\* The mean response time stored only when none is held yet.
store_mean_rt_once(self, rt) ==
    IF self.mean_rt_ = None
        THEN [self EXCEPT !.mean_rt_ = SeriesMean(rt)]
        ELSE self

\* self.mean_rt_ = rt.mean()
store_mean_rt(self, rt) == [self EXCEPT !.mean_rt_ = SeriesMean(rt)]

\* assert self.mean_accuracy_ >= 0
accuracy_not_negative(mean_accuracy) == IsNum(mean_accuracy) /\ mean_accuracy.n >= 0

\* assert self.mean_accuracy_ > 0
accuracy_positive(mean_accuracy) == GtZero(mean_accuracy)

\* assert rt.min() >= 0
rt_not_negative(rt_min) == IsNum(rt_min) /\ rt_min.n >= 0

\* assert rt.min() > 0
rt_positive(rt_min) == GtZero(rt_min)

NotReached == [done |-> FALSE, rt |-> Series(<<>>, "float64")]
Reached(rt) == [done |-> TRUE, rt |-> rt]

\* RTAnalysis.fit: the analyzer after the call, the exception raised ("none"
\* when the call returns) and the Series reject_outlier_rt returned, if the
\* call got that far.
fit(self, rt_arg, accuracy_arg) ==
    LET rt == ensure_series_type(rt_arg)
        accuracy == ensure_series_type(accuracy_arg)
    IN  IF ~validate_length(rt, accuracy)
            THEN [self |-> self, raised |-> "LengthMismatch", rejected |-> NotReached]
        ELSE IF ~dtype_is_bool(accuracy)
            THEN [self |-> self, raised |-> "AssertionError", rejected |-> NotReached]
        ELSE
            LET rt1 == reject_outlier_rt(self, rt)
                self1 == store_mean_accuracy(self, accuracy)
            IN  IF ~accuracy_positive(self1.mean_accuracy_)
                    THEN [self |-> self1, raised |-> "ZeroAccuracy", rejected |-> Reached(rt1)]
                ELSE
                    LET rt2 == Mask(rt1, Not(accuracy))
                        self2 == store_mean_rt(self1, rt2)
                    IN  IF ~rt_positive(SeriesMin(rt2))
                            THEN [self |-> self2, raised |-> "NegativeRT",
                                  rejected |-> Reached(rt1)]
                        ELSE [self |-> self2, raised |-> "none", rejected |-> Reached(rt1)]

-----------------------------------------------------------------------------
(* Arguments *)

Cutoffs == {None} \cup {Num(i) : i \in 1..MaxCutoff}

RTValues == {NaN} \cup {Num(i) : i \in (-1)..MaxRT}

\* The rt arguments of at most maxlen trials.
RTArgs(maxlen) ==
    {Series(v, "float64") : v \in UNION {[1..n -> RTValues] : n \in 0..maxlen}}

AccuracyLists(maxlen) == UNION {[1..n -> {True, False, Other}] : n \in 0..maxlen}

\* The accuracy arguments of at most maxlen trials: a list, a Series pandas
\* typed as bool, or an object-typed Series.
AccuracyArgs(maxlen) ==
    {Series(v, "list") : v \in AccuracyLists(maxlen)}
    \cup {Series(v, "object") : v \in AccuracyLists(maxlen)}
    \cup {Series(v, "bool") : v \in UNION {[1..n -> {True, False}] : n \in 0..maxlen}}

-----------------------------------------------------------------------------
(* State machine *)

NoCall ==
    [active |-> FALSE, rt |-> Series(<<>>, "float64"), accuracy |-> Series(<<>>, "list"),
     raised |-> "none", rejected |-> NotReached, pre |-> RTAnalysis(None)]

\* The call on rtb: its arguments are those of call.
NoCallB == [active |-> FALSE, raised |-> "none", rejected |-> NotReached]

Called(pre, rt, accuracy, r) ==
    [active |-> TRUE, rt |-> rt, accuracy |-> accuracy, raised |-> r.raised,
     rejected |-> r.rejected, pre |-> pre]

NoDf ==
    [made |-> FALSE, rt |-> Series(<<>>, "float64"), accuracy |-> Series(<<>>, "bool"),
     mean_rt |-> Num(0), sd_rt |-> Num(0), mean_accuracy |-> Num(0), n |-> 0]

Init ==
    /\ \E sd \in Cutoffs : rta = RTAnalysis(sd) /\ rtb = RTAnalysis(sd)
    /\ call = NoCall
    /\ callB = NoCallB
    /\ test_df = NoDf

\* rta.fit(rt, accuracy), for arguments of at most maxlen trials
Fit(maxlen) ==
    /\ ~call.active
    /\ ~test_df.made
    /\ \E rt \in RTArgs(maxlen), accuracy \in AccuracyArgs(maxlen) :
           LET r == fit(rta, rt, accuracy)
           IN  /\ rta' = r.self
               /\ call' = Called(rta, rt, accuracy, r)
    /\ UNCHANGED <<rtb, callB, test_df>>

\* rtb = RTAnalysis(<its cutoff>); rtb.fit(<the arguments of the call on rta>)
FitFresh ==
    /\ call.active
    /\ ~callB.active
    /\ LET fresh == RTAnalysis(rtb.outlier_cutoff_sd)
           r == fit(fresh, call.rt, call.accuracy)
       IN  /\ rtb' = r.self
           /\ callB' = [active |-> TRUE, raised |-> r.raised, rejected |-> r.rejected]
    /\ UNCHANGED <<rta, call, test_df>>

\* The arguments go out of scope; rta lives on with what it holds.
Discard ==
    /\ call.active
    /\ call' = NoCall
    /\ callB' = NoCallB
    /\ rtb' = RTAnalysis(rtb.outlier_cutoff_sd)
    /\ test_df' = NoDf
    /\ UNCHANGED rta

Next ==
    \/ Fit(MaxHistLen)
    \/ FitFresh
    \/ Discard

Spec == Init /\ [][Next]_vars

-----------------------------------------------------------------------------
(* generate_testdata.py *)

\* scipy.stats.scoreatpercentile(a, 100 * p): the value at the fractional index
\* p * (n - 1) of the sorted values, interpolated linearly between neighbours.
scoreatpercentile(a, p) ==
    LET sorted == SortSeq(a, RLess)
        pos == p.n * (Len(a) - 1)
        i == pos \div p.d
        rem == pos % p.d
    IN  IF rem = 0 THEN sorted[i + 1]
        ELSE RAdd(sorted[i + 1],
                  RMul(RSub(sorted[i + 2], sorted[i + 1]), Frac(rem, p.d)))

\* Whether scale_values' result is within the model's numbers: the standard
\* deviation of the values is NaN, zero, or has a rational root.
Scalable(values) ==
    LET var == SeriesVar(values, 0)
    IN  IsNum(var) => HasRSqrt(var)

\* scale_values(values, mean, sd).  np.std and np.mean of a Series are
\* Series.std(ddof=0) and Series.mean(), which skip NaN.  With no value the
\* standard deviation is NaN and so is every product; with a standard
\* deviation of 0 the factor sd / 0.0 is inf, every product is +-inf or NaN,
\* and subtracting their mean (inf or NaN) leaves NaN everywhere.
scale_values(values, mean, sd) ==
    LET var == SeriesVar(values, 0)
    IN  IF ~IsNum(var) \/ var.n = 0
            THEN Series([i \in 1..Len(values.values) |-> NaN], values.dtype)
        ELSE
            LET factor == RDiv(sd, RSqrt(var))
                v1 == Series([i \in 1..Len(values.values) |->
                                 IF IsNum(values.values[i])
                                     THEN RMul(values.values[i], factor) ELSE NaN],
                             values.dtype)
                m1 == SeriesMean(v1)
            IN  Series([i \in 1..Len(values.values) |->
                           IF IsNum(v1.values[i])
                               THEN RAdd(RSub(v1.values[i], m1), mean) ELSE NaN],
                       values.dtype)

\* pd.Series(accuracy_continuous < scoreatpercentile(accuracy_continuous, 100 * p))
threshold_accuracy(u, mean_accuracy) ==
    LET score == scoreatpercentile(u, mean_accuracy)
    IN  Series([i \in 1..Len(u) |-> IF RLess(u[i], score) THEN True ELSE False], "bool")

\* generate_test_df(mean_rt, sd_rt, mean_accuracy, n), with the two random
\* draws as arguments: raw is weibull_min.rvs(2, loc=1, size=n), u is
\* np.random.rand(n).
generate_test_df(mean_rt, sd_rt, mean_accuracy, raw, u) ==
    LET n == Len(raw)
        rt == Series(raw, "float64")
        accuracy == threshold_accuracy(u, mean_accuracy)
        rt_correct == Mask(rt, Not(accuracy))
        rt_scaled == scale_values(rt_correct, mean_rt, sd_rt)
        rt_scaled_with_inaccurate_rts ==
            Series([i \in 1..n |-> IF accuracy.values[i] = True
                                       THEN rt_scaled.values[i] ELSE rt.values[i]],
                   "float64")
    IN  [made |-> TRUE, rt |-> rt_scaled_with_inaccurate_rts, accuracy |-> accuracy,
         mean_rt |-> mean_rt, sd_rt |-> sd_rt, mean_accuracy |-> mean_accuracy, n |-> n]

Params == {Num(i) : i \in 1..MaxParam}

\* The requested accuracies: the fractions i/j of [0, 1] with j <= MaxN.
Accuracies == UNION {{Frac(i, j) : i \in 0..j} : j \in 1..MaxN}

\* Draws of n raw response times (the Weibull draw is >= 1 by loc=1).
RawDraws(n) == [1..n -> {Num(i) : i \in 1..MaxRaw}]

\* Draws of n uniform values in [0, 1), pairwise distinct: only their order
\* decides which trials are correct.
UniformDraws(n) == {[i \in 1..n |-> Frac(perm[i] - 1, n)] : perm \in Permutations(1..n)}

\* test_df = generate_test_df(mean_rt, sd_rt, mean_accuracy, n)
Generate ==
    /\ ~test_df.made
    /\ ~call.active
    /\ \E n \in 1..MaxN :
         \E mean_accuracy \in Accuracies, raw \in RawDraws(n), u \in UniformDraws(n) :
           /\ Scalable(Mask(Series(raw, "float64"),
                            Not(threshold_accuracy(u, mean_accuracy))))
           /\ \E mean_rt \in Params, sd_rt \in Params :
                  test_df' = generate_test_df(mean_rt, sd_rt, mean_accuracy, raw, u)
    /\ UNCHANGED <<rta, rtb, call, callB>>

\* rta.fit(test_df.rt, test_df.accuracy)
FitDf ==
    /\ test_df.made
    /\ ~call.active
    /\ LET r == fit(rta, test_df.rt, test_df.accuracy)
       IN  /\ rta' = r.self
           /\ call' = Called(rta, test_df.rt, test_df.accuracy, r)
    /\ UNCHANGED <<rtb, callB, test_df>>

\* The end of a test: its data and its analyzers go, the next test constructs
\* new ones with the same cutoffs.
Teardown ==
    /\ call.active
    /\ call' = NoCall
    /\ callB' = NoCallB
    /\ rta' = RTAnalysis(rta.outlier_cutoff_sd)
    /\ rtb' = RTAnalysis(rtb.outlier_cutoff_sd)
    /\ test_df' = NoDf

InitGen ==
    /\ \E sd \in Cutoffs : rta = RTAnalysis(sd)
    /\ rtb = RTAnalysis(None)
    /\ call = NoCall
    /\ callB = NoCallB
    /\ test_df = NoDf

NextGen ==
    \/ Generate
    \/ FitDf
    \/ Fit(MaxLen)
    \/ Teardown

SpecGen == InitGen /\ [][NextGen]_vars

InitPair ==
    /\ \E sda \in Cutoffs, sdb \in Cutoffs : rta = RTAnalysis(sda) /\ rtb = RTAnalysis(sdb)
    /\ call = NoCall
    /\ callB = NoCallB
    /\ test_df = NoDf

NextPair ==
    \/ Fit(MaxLen)
    \/ FitFresh
    \/ Teardown

SpecPair == InitPair /\ [][NextPair]_vars

-----------------------------------------------------------------------------
(* Properties *)

EqualLength(c) == Len(c.rt.values) = Len(c.accuracy.values)

\* The accuracy Series fit works on is boolean-typed.
BoolTyped(c) == ensure_series_type(c.accuracy).dtype = "bool"

HasNonBool(c) == \E i \in 1..Len(c.accuracy.values) : c.accuracy.values[i] = Other

Correct(c, i) == c.accuracy.values[i] = True

CorrectTrials(c) == {i \in 1..Len(c.accuracy.values) : Correct(c, i)}

\* A table fit can aggregate: equal lengths, boolean-typed accuracy.
ValidTable(c) == c.active /\ EqualLength(c) /\ BoolTyped(c)

\* The share of True in the accuracy sequence.
ShareCorrect(c) ==
    IF c.accuracy.values = <<>> THEN NaN
    ELSE Frac(Cardinality(CorrectTrials(c)), Len(c.accuracy.values))

\* The trials whose response time the outlier rejection of the call replaced
\* by a missing value.
ExcludedBy(c, rejected) ==
    {i \in 1..Len(c.rt.values) : IsNum(c.rt.values[i]) /\ rejected.rt.values[i] = NaN}

ExcludedTrials(c) == ExcludedBy(c, c.rejected)

\* The trials whose response time is left for aggregation: correct, and with
\* a response time after outlier rejection.
RemainingTrials(c) == {i \in CorrectTrials(c) : IsNum(c.rejected.rt.values[i])}

NonPositive(x) == IsNum(x) /\ x.n <= 0

RECURSIVE SumOver(_, _)
SumOver(values, I) ==
    IF I = {} THEN Num(0)
    ELSE LET i == CHOOSE j \in I : TRUE
         IN  RAdd(values[i], SumOver(values, I \ {i}))

\* C1: a fit call that raises leaves (mean_rt_, mean_accuracy_) as they were
\* before the call.
C1_FailedFitCommitsNothing ==
    (call.active /\ call.raised # "none")
        => /\ rta.mean_rt_ = call.pre.mean_rt_
           /\ rta.mean_accuracy_ = call.pre.mean_accuracy_

\* C2: a fit call with sequences of unequal length raises the length-mismatch
\* error, whatever the sequences hold, the cutoff is and the analyzer held.
C2_UnequalLengthRaisesLengthMismatch ==
    (call.active /\ ~EqualLength(call)) => call.raised = "LengthMismatch"

\* An analyzer with a cutoff and an earlier result is given the accuracy
\* sequence one element short.
C2_Witness ==
    /\ call.active
    /\ Len(call.accuracy.values) = Len(call.rt.values) - 1
    /\ call.pre.mean_rt_.k = "num"
    /\ rta.outlier_cutoff_sd # None
    /\ call.raised = "LengthMismatch"

\* C3: fit on a table generated from mean_rt > 0, sd_rt > 0, mean_accuracy in
\* (0, 1] and n >= 1, on an analyzer without cutoff, returns and stores
\* mean_rt_ = mean_rt and mean_accuracy_ = mean_accuracy.
C3_GeneratedTableIsRecovered ==
    (/\ call.active
     /\ test_df.made
     /\ test_df.mean_accuracy.n > 0
     /\ rta.outlier_cutoff_sd = None)
        => /\ call.raised = "none"
           /\ rta.mean_rt_ = test_df.mean_rt
           /\ rta.mean_accuracy_ = test_df.mean_accuracy

\* C4: generate_test_df with mean_accuracy = 0 marks no trial correct, and fit
\* on an equal-length boolean-typed table without a correct trial raises the
\* zero-accuracy error, for every cutoff and all response times.
C4_NoCorrectTrialRaisesZeroAccuracy ==
    /\ (test_df.made /\ test_df.mean_accuracy.n = 0)
           => \A i \in 1..test_df.n : test_df.accuracy.values[i] = False
    /\ (ValidTable(call) /\ CorrectTrials(call) = {})
           => call.raised = "ZeroAccuracy"

\* A table generated with mean_accuracy = 0 was fitted by an analyzer with a
\* cutoff, and the call raised the zero-accuracy error.
C4_Witness ==
    /\ test_df.made
    /\ test_df.mean_accuracy.n = 0
    /\ test_df.n > 1
    /\ call.active
    /\ call.rt = test_df.rt
    /\ rta.outlier_cutoff_sd # None
    /\ call.raised = "ZeroAccuracy"

\* C5: the error fit reports is that of the earliest failing check: unequal
\* lengths before a non-boolean accuracy value, a non-boolean accuracy value
\* before an accuracy of zero, an accuracy of zero before a non-positive
\* response time.
C5_EarliestCheckDecidesTheError ==
    call.active =>
        /\ ~EqualLength(call) => call.raised = "LengthMismatch"
        /\ (EqualLength(call) /\ HasNonBool(call)) => call.raised = "AssertionError"
        /\ (ValidTable(call) /\ CorrectTrials(call) = {}) => call.raised = "ZeroAccuracy"
        /\ call.raised = "NegativeRT" => (ValidTable(call) /\ CorrectTrials(call) # {})

\* A table of equal lengths with a non-boolean accuracy value, no correct trial
\* and a response time <= 0: the accuracy-domain error is the one reported.
C5_Witness ==
    /\ call.active
    /\ EqualLength(call)
    /\ HasNonBool(call)
    /\ CorrectTrials(call) = {}
    /\ \E i \in 1..Len(call.rt.values) : NonPositive(call.rt.values[i])
    /\ call.raised = "AssertionError"

\* C6: after a fit that returned, the analyzer holds what a newly constructed
\* analyzer with the same cutoff holds after fitting the same arguments,
\* whatever calls came before; and fit leaves outlier_cutoff_sd as constructed.
C6_ResultIndependentOfHistory ==
    /\ call.active => rta.outlier_cutoff_sd = call.pre.outlier_cutoff_sd
    /\ (call.active /\ callB.active /\ call.raised = "none")
           => /\ callB.raised = "none"
              /\ rtb.outlier_cutoff_sd = rta.outlier_cutoff_sd
              /\ rta.mean_rt_ = rtb.mean_rt_
              /\ rta.mean_accuracy_ = rtb.mean_accuracy_

\* The analyzer held another result before the call, the new analyzer held
\* none, and both returned.
C6_Witness ==
    /\ call.active
    /\ callB.active
    /\ call.raised = "none"
    /\ call.pre.mean_rt_.k = "num"
    /\ call.pre.mean_rt_ # rta.mean_rt_
    /\ call.pre.mean_accuracy_ # rta.mean_accuracy_
    /\ rta.outlier_cutoff_sd # None

\* C7: when some trial is correct and the outlier cutoff excludes the response
\* time of every correct trial, fit returns, mean_rt_ is NaN and
\* mean_accuracy_ is the mean of the accuracy sequence.
C7_AllCorrectExcludedReturnsNaN ==
    (/\ ValidTable(call)
     /\ CorrectTrials(call) # {}
     /\ CorrectTrials(call) \subseteq ExcludedTrials(call))
        => /\ call.raised = "none"
           /\ rta.mean_rt_ = NaN
           /\ rta.mean_accuracy_ = ShareCorrect(call)

\* C8: on a valid table with a correct trial, fit raises the negative-rt error
\* when a remaining trial (correct, not excluded) has response time <= 0; and
\* when response times remain and all of them are > 0 it returns, whatever
\* the response times of the incorrect trials are.
C8_OnlyRemainingTimesAreChecked ==
    (ValidTable(call) /\ CorrectTrials(call) # {})
        => /\ (\E i \in RemainingTrials(call) : NonPositive(call.rt.values[i]))
                  => call.raised = "NegativeRT"
           /\ (/\ RemainingTrials(call) # {}
               /\ \A i \in RemainingTrials(call) : ~NonPositive(call.rt.values[i]))
                  => call.raised = "none"

\* A remaining trial has response time exactly 0 and the call raised, on an
\* analyzer with a cutoff that excluded another trial.
C8_Witness ==
    /\ ValidTable(call)
    /\ \E i \in RemainingTrials(call) : call.rt.values[i] = Num(0)
    /\ \A i \in RemainingTrials(call) : call.rt.values[i].n >= 0
    /\ ExcludedTrials(call) # {}
    /\ call.raised = "NegativeRT"

\* C9: for every valid table and cutoff, mean_accuracy_ is the mean of the
\* accuracy sequence over all trials, equal to what an analyzer without cutoff
\* stores; an excluded trial stays in the table, and when fit returns mean_rt_
\* is the mean over the correct trials that are not excluded (response time
\* > std of all response times * outlier_cutoff_sd).
C9_OutlierRejectionLeavesAccuracy ==
    (ValidTable(call) /\ callB.active /\ rtb.outlier_cutoff_sd = None)
        => /\ rta.mean_accuracy_ = ShareCorrect(call)
           /\ rta.mean_accuracy_ = rtb.mean_accuracy_
           /\ Len(call.rejected.rt.values) = Len(call.rt.values)
           /\ call.raised = "none" =>
                LET kept == {i \in CorrectTrials(call) :
                                /\ IsNum(call.rt.values[i])
                                /\ (rta.outlier_cutoff_sd # None =>
                                      ~GtCutoff(call.rt.values[i], SeriesVar(call.rt, 1),
                                                rta.outlier_cutoff_sd))}
                    total == SumOver(call.rt.values, kept)
                IN  /\ kept # {}
                    /\ rta.mean_rt_ = Frac(total.n, total.d * Cardinality(kept))

\* A cutoff excluded a correct trial, another correct trial remained, both
\* analyzers returned with the same accuracy and different mean_rt_.
C9_Witness ==
    /\ ValidTable(call)
    /\ callB.active
    /\ rtb.outlier_cutoff_sd = None
    /\ rta.outlier_cutoff_sd # None
    /\ ExcludedTrials(call) \cap CorrectTrials(call) # {}
    /\ call.raised = "none"
    /\ callB.raised = "none"
    /\ rta.mean_rt_ # rtb.mean_rt_
    /\ rta.mean_accuracy_ = Num(1)

\* C10: for cutoffs k1 <= k2 and the same response times, the trials excluded
\* with k2 are among those excluded with k1, so no more in number; without a
\* cutoff no trial is excluded.
C10_LooserCutoffExcludesNoMore ==
    (ValidTable(call) /\ callB.active)
        => /\ (/\ rta.outlier_cutoff_sd # None
               /\ rtb.outlier_cutoff_sd # None
               /\ ~RLess(rtb.outlier_cutoff_sd, rta.outlier_cutoff_sd))
                  => /\ ExcludedBy(call, callB.rejected) \subseteq ExcludedTrials(call)
                     /\ Cardinality(ExcludedBy(call, callB.rejected)) <= Cardinality(ExcludedTrials(call))
           /\ rta.outlier_cutoff_sd = None
                  => (ExcludedTrials(call) = {} /\ call.rejected.rt = call.rt)

\* The tighter cutoff excluded two trials, the looser one fewer.
C10_Witness ==
    /\ ValidTable(call)
    /\ callB.active
    /\ rta.outlier_cutoff_sd # None
    /\ rtb.outlier_cutoff_sd # None
    /\ RLess(rta.outlier_cutoff_sd, rtb.outlier_cutoff_sd)
    /\ Cardinality(ExcludedTrials(call)) = 2
    /\ Cardinality(ExcludedBy(call, callB.rejected)) < 2

====
